---- MODULE Spec2Model ----
(***************************************************************************)
(* The guess grid of bandordle's multi-word game component: the cells, the *)
(* flat cursor selectedCell, the key handler, the cell click handler and   *)
(* the grading request lifecycle of lockInGuess / makeGuess.               *)
(*                                                                         *)
(* JavaScript values are represented as follows.                           *)
(*   - a string that is read character by character (the guess) is a      *)
(*     sequence of one-character strings; a key identifier and a message   *)
(*     are TLA+ strings;                                                   *)
(*   - undefined in a cell is the string Undefined; an undefined string    *)
(*     (splitGuess[i] past the end) is the sequence StrUndefined;          *)
(*   - an element of the response's grade array is a record                *)
(*     [array, items]: a single Grade g is [array |-> FALSE, items |->     *)
(*     <<g>>], an array of Grades is [array |-> TRUE, items |-> ...];      *)
(*   - indices (wordIdx, i, selectedCell) are 0-based as in the source;    *)
(*     the TLA+ sequences that hold the arrays are 1-based.                *)
(***************************************************************************)
EXTENDS Integers, Sequences, FiniteSets, TLC

\* The component's props and state, then: requests, the calls of makeGuess
\* whose promise is pending, in the order they were made, each with the number
\* n of its call; sent, the guess of every call of makeGuess so far, in the
\* order of the calls; fulfilled, for each group of previousGuesses the number
\* of the call it answers; lastEvent, the handler that ran last and what it
\* was given.
VARIABLES initialId, initialLen, cells, selectedCell, previousGuesses, error,
          requests, sent, fulfilled, lastEvent

vars == <<initialId, initialLen, cells, selectedCell, previousGuesses, error,
          requests, sent, fulfilled, lastEvent>>


\* Bound: the number of grading requests issued in one run.
MaxRequests == 2

\* Bounds: the number of words and the length of a word of the grids the
\* coordinate translation is applied to.
MaxWords == 3

MaxWordLen == 3

\* JavaScript's undefined, as the content of a cell or of error.
Undefined == "undefined"

\* An undefined value where a string (a sequence of characters) is expected.
StrUndefined == <<Undefined>>

\* The fallback message of the catch handler.
Fallback == "oh no"

\* The character class [a-zA-Z1-9] of allowedChar.
ClassChars ==
    {"a", "b", "c", "d", "e", "f", "g", "h", "i", "j", "k", "l", "m",
     "n", "o", "p", "q", "r", "s", "t", "u", "v", "w", "x", "y", "z",
     "A", "B", "C", "D", "E", "F", "G", "H", "I", "J", "K", "L", "M",
     "N", "O", "P", "Q", "R", "S", "T", "U", "V", "W", "X", "Y", "Z",
     "1", "2", "3", "4", "5", "6", "7", "8", "9"}

\* The whitespace characters \s matches, among the characters of the model.
Whitespace == {" "}

\* The values of Grade.
Grades == {"Correct", "WrongPlace", "Incorrect"}

\* The key identifiers (event.key) the model presses.
Keys == {"a", "A", "0", "Shift", "Backspace", "Enter"}

\* The game ids the model starts with.
GameIds == {"g1"}

\* String.prototype.toLowerCase on the key identifiers of the model.
toLowerCase(k) ==
    CASE k = "A" -> "a"
      [] k = "Shift" -> "shift"
      [] k = "Backspace" -> "backspace"
      [] k = "Enter" -> "enter"
      [] OTHER -> k

RECURSIVE Sum(_)
\* lengths.reduce((a, b) => a + b, 0)
Sum(s) == IF s = <<>> THEN 0 ELSE Head(s) + Sum(Tail(s))

\* The word lengths (initialLen) a game of the model starts with.
WordLengthChoices == {<<1>>, <<2>>, <<1, 2>>, <<2, 1>>}

\* newArr: one array of l undefined cells per length l.
newArr(lengths) ==
    [w \in 1..Len(lengths) |-> [i \in 1..lengths[w] |-> Undefined]]

\* allowedChar: a single character of the class [a-zA-Z1-9].
allowedChar(ch) == Len(ch) = 1 /\ ch \in ClassChars

RECURSIVE effectiveIndexSumInclusive(_, _)
\* effectiveIndexSum with the slice taken up to and including wordIdx.
effectiveIndexSumInclusive(cs, wordIdx) ==
    IF wordIdx < 0 \/ cs = <<>> THEN 0
    ELSE Len(Head(cs)) + effectiveIndexSumInclusive(Tail(cs), wordIdx - 1)

RECURSIVE effectiveIndexSum(_, _)
\* cells.slice(0, wordIdx).map((x) => x.length).reduce((a, b) => a + b, 0)
effectiveIndexSum(cs, wordIdx) ==
    IF wordIdx <= 0 \/ cs = <<>> THEN 0
    ELSE Len(Head(cs)) + effectiveIndexSum(Tail(cs), wordIdx - 1)

\* effectiveIndex: the flat position of slot inWordIdx of word wordIdx.
effectiveIndex(wordIdx, inWordIdx) == effectiveIndexSum(cells, wordIdx) + inWordIdx

RECURSIVE actualIndexLoopInclusive(_, _, _)
\* actualIndexLoop returning from the loop on sel <= cells[i].length.
actualIndexLoopInclusive(cs, i, sel) ==
    IF sel > 0 /\ i < Len(cs)
    THEN IF sel <= Len(cs[i + 1])
         THEN <<i, sel>>
         ELSE actualIndexLoopInclusive(cs, i + 1, sel - Len(cs[i + 1]))
    ELSE <<i, sel>>

RECURSIVE actualIndexLoopSkipsWord(_, _, _)
\* actualIndexLoop that does not subtract the length of the word it leaves.
actualIndexLoopSkipsWord(cs, i, sel) ==
    IF sel > 0 /\ i < Len(cs)
    THEN IF sel < Len(cs[i + 1])
         THEN <<i, sel>>
         ELSE actualIndexLoopSkipsWord(cs, i + 1, sel - 1)
    ELSE <<i, sel>>

RECURSIVE actualIndexLoop(_, _, _)
\* The while loop of actualIndex, entered with the counters i and sel.
actualIndexLoop(cs, i, sel) ==
    IF sel > 0 /\ i < Len(cs)
    THEN IF sel < Len(cs[i + 1])
         THEN <<i, sel>>
         ELSE actualIndexLoop(cs, i + 1, sel - Len(cs[i + 1]))
    ELSE <<i, sel>>

\* actualIndex: the pair [wordIdx, i] of the flat position sel.
actualIndex(sel) == actualIndexLoop(cells, 0, sel)

\* x.join(""): undefined elements contribute the empty string.
joinWord(x) == SelectSeq(x, LAMBDA c : c # Undefined)

RECURSIVE joinWordsNoSeparator(_)
\* joinWords with join("") in place of join(" ").
joinWordsNoSeparator(cs) ==
    IF cs = <<>> THEN <<>>
    ELSE joinWord(cs[1]) \o joinWordsNoSeparator(Tail(cs))

RECURSIVE joinWords(_)
\* cells.map((x) => x.join("")).join(" ")
joinWords(cs) ==
    IF cs = <<>> THEN <<>>
    ELSE IF Len(cs) = 1 THEN joinWord(cs[1])
    ELSE joinWord(cs[1]) \o <<" ">> \o joinWords(Tail(cs))

RECURSIVE splitLoop(_, _, _)
\* guess.split(/\s+/): cur is the piece being read, inGap says that the last
\* character read was whitespace (a run of whitespace is one separator).
splitLoop(s, cur, inGap) ==
    IF s = <<>> THEN <<cur>>
    ELSE IF Head(s) \in Whitespace
         THEN IF inGap THEN splitLoop(Tail(s), cur, TRUE)
              ELSE <<cur>> \o splitLoop(Tail(s), <<>>, TRUE)
         ELSE splitLoop(Tail(s), Append(cur, Head(s)), FALSE)

split(s) == splitLoop(s, <<>>, FALSE)

\* cells.findIndex((x) => x.includes(undefined)) >= 0
hasUndefined(cs) == \E w \in 1..Len(cs) : \E i \in 1..Len(cs[w]) : cs[w][i] = Undefined

----
\* The bodies a grading request can be answered with.

NoGrade == <<>>

\* makeGuess resolves with a body that holds the array grade.
OkBody(g) == [type |-> "grade", grade |-> g, message |-> ""]

\* makeGuess resolves with a body that holds no grade array.
OkNoGradeBody == [type |-> "nograde", grade |-> NoGrade, message |-> ""]

\* makeGuess rejects with an object whose message is m.
ErrBody(m) == [type |-> "message", grade |-> NoGrade, message |-> m]

\* makeGuess rejects with an object that has no message.
ErrNoMessageBody == [type |-> "nomessage", grade |-> NoGrade, message |-> ""]

\* An Error with the message m is thrown: by fetch when the request cannot
\* complete, by resp.json() on a body that is not JSON, by the then handler.
ThrownError(m) == [type |-> "error", grade |-> NoGrade, message |-> m]

\* The message of the TypeError fetch rejects with.
FetchTypeError == "Failed to fetch"

\* makeGuess rejects with null (the failure response's JSON body is null).
ErrNullBody == [type |-> "null", grade |-> NoGrade, message |-> ""]

EmptyBody == [type |-> "none", grade |-> NoGrade, message |-> ""]

GradeCycle == <<"Correct", "WrongPlace", "Incorrect">>

\* The grade of flat position p (1-based) in the response pattern o.
GradeAt(o, p) == GradeCycle[((p + o - 1) % 3) + 1]

GradeVal(g) == [array |-> FALSE, items |-> <<g>>]

GradeArr(s) == [array |-> TRUE, items |-> s]

\* A flat grade array of length n.
FlatGrade(o, n) == [p \in 1..n |-> GradeVal(GradeAt(o, p))]

\* A grade array of one Grade array per length of lens, in letter order.
NestedGrade(o, lens) ==
    [w \in 1..Len(lens) |->
        GradeArr([i \in 1..lens[w] |-> GradeAt(o, Sum(SubSeq(lens, 1, w - 1)) + i)])]

\* The message of the TypeError the then handler throws on a body without a
\* grade array.
ThenTypeError == "grade.map is not a function"

ResolveBodies(lens) ==
    {OkBody(FlatGrade(0, n)) : n \in {Sum(lens), Sum(lens) + 1}}
    \cup {OkBody(NestedGrade(0, lens)), OkNoGradeBody}

RejectBodies ==
    {ErrBody("unknown id"), ErrNoMessageBody, ErrNullBody, ThrownError(FetchTypeError)}

----
\* What lastEvent records of a handler: for onkeydown, raw is event.key and
\* key is the handler's constant key.
Event(op, key, req, body, escaped) ==
    [op |-> op, key |-> key, raw |-> "", req |-> req, body |-> body, escaped |-> escaped]

\* The state after the component is constructed.
Init ==
    /\ initialId \in GameIds
    /\ initialLen \in WordLengthChoices
    /\ cells = newArr(initialLen)
    /\ selectedCell = 0
    /\ previousGuesses = <<>>
    /\ error = Undefined
    /\ requests = <<>>
    /\ sent = <<>>
    /\ fulfilled = <<>>
    /\ lastEvent = Event("init", "", 0, EmptyBody, FALSE)

\* lockInGuess looking for undefined in the first word only.
lockInGuessFirstWord ==
    IF hasUndefined(SubSeq(cells, 1, 1))
    THEN UNCHANGED <<requests, sent>>
    ELSE LET guess == joinWords(cells)
         IN /\ Len(sent) < MaxRequests
            /\ sent' = Append(sent, guess)
            /\ requests' = Append(requests,
                  [id |-> initialId, guess |-> guess, n |-> Len(sent) + 1])

\* lockInGuess up to the call of makeGuess: the request is sent unless a cell
\* is undefined.
lockInGuess ==
    IF hasUndefined(cells)
    THEN UNCHANGED <<requests, sent>>
    ELSE LET guess == joinWords(cells)
         IN /\ Len(sent) < MaxRequests
            /\ sent' = Append(sent, guess)
            /\ requests' = Append(requests,
                  [id |-> initialId, guess |-> guess, n |-> Len(sent) + 1])

\* onBackspace without the Math.max: at 0 the cursor becomes -1, and the
\* assignment to cells[0][-1] writes no slot.
onBackspaceNoClamp ==
    LET sel == selectedCell - 1
        idx == actualIndexLoop(cells, 0, sel)
    IN /\ selectedCell' = sel
       /\ cells' = IF idx[1] < Len(cells) /\ idx[2] >= 0 /\ idx[2] < Len(cells[idx[1] + 1])
                   THEN [cells EXCEPT ![idx[1] + 1][idx[2] + 1] = Undefined]
                   ELSE cells

\* onBackspace emptying the slot at the cursor before it moves the cursor.
onBackspaceClearsOld ==
    LET sel == IF selectedCell - 1 > 0 THEN selectedCell - 1 ELSE 0
        idx == actualIndexLoop(cells, 0, selectedCell)
    IN /\ selectedCell' = sel
       /\ cells' = IF idx[1] < Len(cells) /\ idx[2] < Len(cells[idx[1] + 1])
                   THEN [cells EXCEPT ![idx[1] + 1][idx[2] + 1] = Undefined]
                   ELSE cells

\* The backspace branch of onkeydown.
onBackspace ==
    LET sel == IF selectedCell - 1 > 0 THEN selectedCell - 1 ELSE 0
        idx == actualIndexLoop(cells, 0, sel)
    IN /\ selectedCell' = sel
       /\ cells' = IF idx[1] < Len(cells)
                   THEN [cells EXCEPT ![idx[1] + 1] =
                            IF idx[2] < Len(@)
                            THEN [@ EXCEPT ![idx[2] + 1] = Undefined]
                            ELSE @ \o [j \in 1..(idx[2] + 1 - Len(@)) |-> Undefined]]
                   ELSE cells

\* onCharacter without selectedCell++.
onCharacterNoAdvance(key) ==
    LET idx == actualIndex(selectedCell)
    IN IF allowedChar(key) /\ idx[1] < Len(cells) /\ idx[2] < Len(cells[idx[1] + 1])
       THEN /\ cells' = [cells EXCEPT ![idx[1] + 1][idx[2] + 1] = key]
            /\ selectedCell' = selectedCell
       ELSE UNCHANGED <<cells, selectedCell>>

\* onCharacter without the bounds check of the condition.
onCharacterUnbounded(key) ==
    LET idx == actualIndex(selectedCell)
    IN IF allowedChar(key)
       THEN /\ cells' = IF idx[1] < Len(cells) /\ idx[2] < Len(cells[idx[1] + 1])
                         THEN [cells EXCEPT ![idx[1] + 1][idx[2] + 1] = key]
                         ELSE cells
            /\ selectedCell' = selectedCell + 1
       ELSE UNCHANGED <<cells, selectedCell>>

\* The last branch of onkeydown: a key that is neither backspace nor enter.
onCharacter(key) ==
    LET idx == actualIndex(selectedCell)
    IN IF allowedChar(key) /\ idx[1] < Len(cells) /\ idx[2] < Len(cells[idx[1] + 1])
       THEN /\ cells' = [cells EXCEPT ![idx[1] + 1][idx[2] + 1] = key]
            /\ selectedCell' = selectedCell + 1
       ELSE UNCHANGED <<cells, selectedCell>>

\* onkeydown: the window's key handler, for the key identifier k.
onkeydown(k) ==
    LET key == toLowerCase(k)
    IN /\ IF key = "backspace"
          THEN onBackspace /\ UNCHANGED <<requests, sent>>
          ELSE IF key = "enter"
               THEN lockInGuess /\ UNCHANGED <<cells, selectedCell>>
               ELSE onCharacter(key) /\ UNCHANGED <<requests, sent>>
       /\ lastEvent' = [Event("keydown", key, 0, EmptyBody, FALSE) EXCEPT !.raw = k]
       /\ UNCHANGED <<initialId, initialLen, previousGuesses, error, fulfilled>>

\* The onclick of the cell i of word wordIdx.
onclick(wordIdx, i) ==
    /\ selectedCell' = effectiveIndex(wordIdx, i)
    /\ lastEvent' = Event("click", "", 0, EmptyBody, FALSE)
    /\ UNCHANGED <<initialId, initialLen, cells, previousGuesses, error, requests,
                   sent, fulfilled>>

\* guessGroup pairing every grade with the first piece of the guess.
guessGroupFirstPiece(grade, guess) ==
    LET splitGuess == split(guess)
    IN [i \in 1..Len(grade) |-> [grade |-> grade[i], guess |-> splitGuess[1]]]

\* The group the then handler pushes for the grade array grade of the
\* response to the request whose guess is guess.
guessGroup(grade, guess) ==
    LET splitGuess == split(guess)
    IN [i \in 1..Len(grade) |->
          [grade |-> grade[i],
           guess |-> IF i <= Len(splitGuess) THEN splitGuess[i] ELSE StrUndefined]]

\* thenHandler building the group from the grid as it is when the response
\* arrives, in place of the guess constant of lockInGuess.
thenHandlerReadsCells(guess, grade) ==
    /\ previousGuesses' = Append(previousGuesses, guessGroup(grade, joinWords(cells)))
    /\ cells' = newArr(initialLen)
    /\ selectedCell' = 0
    /\ error' = Undefined

\* thenHandler leaving the cursor where it is.
thenHandlerKeepsCursor(guess, grade) ==
    /\ previousGuesses' = Append(previousGuesses, guessGroup(grade, guess))
    /\ cells' = newArr(initialLen)
    /\ selectedCell' = selectedCell
    /\ error' = Undefined

\* thenHandler with unshift in place of push.
thenHandlerUnshift(guess, grade) ==
    /\ previousGuesses' = <<guessGroup(grade, guess)>> \o previousGuesses
    /\ cells' = newArr(initialLen)
    /\ selectedCell' = 0
    /\ error' = Undefined

\* The then handler of the request whose guess is guess, on a body that holds
\* the array grade.
thenHandler(guess, grade) ==
    /\ previousGuesses' = Append(previousGuesses, guessGroup(grade, guess))
    /\ cells' = newArr(initialLen)
    /\ selectedCell' = 0
    /\ error' = Undefined

\* catchHandler resetting the grid as the then handler does.
catchHandlerResets(x) ==
    /\ IF x.type = "null"
       THEN error' = error
       ELSE error' = IF x.type \in {"message", "error"} THEN x.message ELSE Fallback
    /\ cells' = newArr(initialLen)
    /\ selectedCell' = 0
    /\ UNCHANGED previousGuesses

\* The catch handler, on the thrown value x: error = x.message ?? "oh no".
\* Reading x.message of null throws, and the assignment does not happen.
catchHandler(x) ==
    /\ IF x.type = "null"
       THEN error' = error
       ELSE error' = IF x.type \in {"message", "error"} THEN x.message ELSE Fallback
    /\ UNCHANGED <<cells, selectedCell, previousGuesses>>

\* The sequence s without its element k.
Remove(s, k) == SubSeq(s, 1, k - 1) \o SubSeq(s, k + 1, Len(s))

\* The promise of the pending request k resolves with body b and the callbacks
\* of lockInGuess run: the then handler, and the catch handler with the
\* TypeError the then handler throws on a body without a grade array.
resolved(k, b) ==
    /\ IF b.type = "grade"
       THEN /\ thenHandler(requests[k].guess, b.grade)
            /\ fulfilled' = Append(fulfilled, requests[k].n)
            /\ lastEvent' = Event("then", "", requests[k].n, b, FALSE)
       ELSE /\ catchHandler(ThrownError(ThenTypeError))
            /\ fulfilled' = fulfilled
            /\ lastEvent' = Event("catch", "", requests[k].n, b, FALSE)
    /\ requests' = Remove(requests, k)
    /\ UNCHANGED <<initialId, initialLen, sent>>

\* The promise of the pending request k rejects with the value x (a failure
\* response's body, or the error fetch threw) and the catch handler runs.
rejected(k, x) ==
    /\ catchHandler(x)
    /\ requests' = Remove(requests, k)
    /\ lastEvent' = Event("catch", "", requests[k].n, x, x.type = "null")
    /\ UNCHANGED <<initialId, initialLen, sent, fulfilled>>

Next ==
    \/ \E k \in Keys : onkeydown(k)
    \/ \E w \in 0..(Len(cells) - 1) : \E i \in 0..(Len(cells[w + 1]) - 1) : onclick(w, i)
    \/ \E k \in 1..Len(requests) : \E b \in ResolveBodies(initialLen) : resolved(k, b)
    \/ \E k \in 1..Len(requests) : \E x \in RejectBodies : rejected(k, x)

Spec == Init /\ [][Next]_vars

\* The same component in a game of one word, with two letters, Backspace and
\* Enter on the keyboard, so that two guesses of one game can differ.
KeysTwoLetters == {"a", "b", "Backspace", "Enter"}

InitOneWord == Init /\ Len(initialLen) = 1

NextTwoLetters ==
    \/ \E k \in KeysTwoLetters : onkeydown(k)
    \/ \E w \in 0..(Len(cells) - 1) : \E i \in 0..(Len(cells[w + 1]) - 1) : onclick(w, i)
    \/ \E k \in 1..Len(requests) : \E b \in ResolveBodies(initialLen) : resolved(k, b)
    \/ \E k \in 1..Len(requests) : \E x \in RejectBodies : rejected(k, x)

SpecTwoLetters == InitOneWord /\ [][NextTwoLetters]_vars

----
\* The coordinate translation on its own: effectiveIndex and actualIndex
\* applied to the empty grid of every game of up to MaxWords words of up to
\* MaxWordLen slots, and the one applied to the result of the other.

IndexWordLengths == UNION {[1..n -> 1..MaxWordLen] : n \in 1..MaxWords}

\* What lastEvent records of a call: actualIndex(p) = [w, s] and
\* effectiveIndex(w, s) = backP, or effectiveIndex(w, s) = p and
\* actualIndex(p) = [backW, backS].
IndexEvent(op, p, w, s, backP, backW, backS) ==
    [op |-> op, p |-> p, w |-> w, s |-> s, backP |-> backP, backW |-> backW,
     backS |-> backS]

IndexInit ==
    /\ initialId \in GameIds
    /\ initialLen \in IndexWordLengths
    /\ cells = newArr(initialLen)
    /\ selectedCell = 0
    /\ previousGuesses = <<>>
    /\ error = Undefined
    /\ requests = <<>>
    /\ sent = <<>>
    /\ fulfilled = <<>>
    /\ lastEvent = IndexEvent("init", 0, 0, 0, 0, 0, 0)

\* actualIndex is called on the flat position p, effectiveIndex on its result.
callActualIndex(p) ==
    /\ LET idx == actualIndex(p)
       IN lastEvent' = IndexEvent("actualIndex", p, idx[1], idx[2],
                                  effectiveIndex(idx[1], idx[2]), 0, 0)
    /\ UNCHANGED <<initialId, initialLen, cells, selectedCell, previousGuesses, error,
                   requests, sent, fulfilled>>

\* effectiveIndex is called on slot s of word w, actualIndex on its result.
callEffectiveIndex(w, s) ==
    /\ LET p == effectiveIndex(w, s)
           idx == actualIndex(p)
       IN lastEvent' = IndexEvent("effectiveIndex", p, w, s, 0, idx[1], idx[2])
    /\ UNCHANGED <<initialId, initialLen, cells, selectedCell, previousGuesses, error,
                   requests, sent, fulfilled>>

IndexNext ==
    \/ \E p \in 0..Sum(initialLen) : callActualIndex(p)
    \/ \E w \in 0..(Len(cells) - 1) : \E s \in 0..Len(cells[w + 1]) : callEffectiveIndex(w, s)

SpecIndex == IndexInit /\ [][IndexNext]_vars

\* The component without clicks on cells: keys and grading responses only.
NextNoClicks ==
    \/ \E k \in Keys : onkeydown(k)
    \/ \E k \in 1..Len(requests) : \E b \in ResolveBodies(initialLen) : resolved(k, b)
    \/ \E k \in 1..Len(requests) : \E x \in RejectBodies : rejected(k, x)

SpecNoClicks == Init /\ [][NextNoClicks]_vars

----
\* Definitions the properties below are stated with.

\* sum(WordLengths): the number of slots of the grid.
TotalSlots == Sum(initialLen)

\* Some slot of some word is empty.
SomeSlotEmpty == \E w \in 1..Len(cells) : \E i \in 1..Len(cells[w]) : cells[w][i] = Undefined

\* Every slot of word w (1-based) is filled.
WordFilled(w) == \A i \in 1..Len(cells[w]) : cells[w][i] # Undefined

\* prefixSum(WordLengths, w): the slots before word w (1-based).
PrefixSum(w) == Sum(SubSeq(initialLen, 1, w - 1))

\* The step is a press of Enter.
EnterStep == lastEvent'.op = "keydown" /\ lastEvent'.key = "enter"

\* The step handles a successful response (the then handler ran to its end).
ThenStep == lastEvent'.op = "then"

\* The step handles a failure (the catch handler ran).
CatchStep == lastEvent'.op = "catch"

\* The guess of the request the step answers, as it was sent.
AnsweredGuess ==
    LET k == CHOOSE k \in 1..Len(requests) : requests[k].n = lastEvent'.req
    IN requests[k].guess

\* Word w (1-based) of a guess that holds the words of the grid in order with
\* one separator between two words.
WordOf(guess, w) ==
    SubSeq(guess, PrefixSum(w) + w, PrefixSum(w) + w - 1 + initialLen[w])

\* No element of the grade sequence g is itself a sequence.
IsFlat(g) == \A p \in 1..Len(g) : ~g[p].array

\* The Grades of the flat sequence g from position a to position b (1-based).
FlatSlice(g, a, b) == [p \in 1..(b - a + 1) |-> g[a + p - 1].items[1]]

\* The group the step appended to History.
AppendedGroup == previousGuesses'[Len(previousGuesses')]

\* C1: at most one grading request is outstanding at a time.
C1_AtMostOneOutstanding == Len(requests) <= 1

\* C2: the cursor stays within 0..sum(WordLengths) in every reachable state.
C2_CursorBound == selectedCell >= 0 /\ selectedCell <= TotalSlots

\* The cursor rests one past the last slot of a two-word grid once a letter
\* was typed, and a guess has been graded before.
C2_Witness ==
    /\ selectedCell = TotalSlots
    /\ lastEvent.op = "keydown" /\ lastEvent.key = "a"
    /\ Len(initialLen) = 2
    /\ previousGuesses # <<>>

\* C3: a press of Enter while some slot is empty issues no request and leaves
\* the cells, the cursor, History and the error message unchanged.
C3_IncompleteEnterChangesNothing ==
    [][(EnterStep /\ SomeSlotEmpty) =>
          /\ requests' = requests
          /\ sent' = sent
          /\ cells' = cells
          /\ selectedCell' = selectedCell
          /\ previousGuesses' = previousGuesses
          /\ error' = error]_vars

\* Enter was pressed with the first word filled and the second one not, and
\* no request was ever issued.
C3_Witness ==
    /\ lastEvent.op = "keydown" /\ lastEvent.key = "enter"
    /\ Len(initialLen) = 2
    /\ WordFilled(1) /\ ~WordFilled(2)
    /\ sent = <<>> /\ requests = <<>>

C5_MalformedResponseIsFailure ==
    [][(/\ lastEvent'.op \in {"then", "catch"}
        /\ lastEvent'.body.type = "grade"
        /\ IsFlat(lastEvent'.body.grade)
        /\ Len(lastEvent'.body.grade) # TotalSlots) =>
          /\ previousGuesses' = previousGuesses
          /\ error' # Undefined
          /\ cells' = cells
          /\ selectedCell' = selectedCell]_vars

\* C6: the failure handler leaves the cells, the cursor and History as they
\* were before the failure was delivered.
C6_FailurePreservesGrid ==
    [][CatchStep =>
          /\ cells' = cells
          /\ selectedCell' = selectedCell
          /\ previousGuesses' = previousGuesses]_vars

\* A failure with a message was handled while the grid was full and a graded
\* guess was in History.
C6_Witness ==
    /\ lastEvent.op = "catch"
    /\ lastEvent.body.type = "message"
    /\ ~SomeSlotEmpty
    /\ selectedCell = TotalSlots
    /\ previousGuesses # <<>>

\* C7: after every failure outcome (a payload with a message, a payload
\* without one, no payload at all) the error message is set, to the payload's
\* message when it has one and to the fallback otherwise, and no exception
\* escapes.
C7_FailureSurfaced ==
    (lastEvent.op = "catch" /\ lastEvent.body.type \in {"message", "nomessage", "null", "error"}) =>
        /\ error = IF lastEvent.body.type = "message" THEN lastEvent.body.message ELSE Fallback
        /\ ~lastEvent.escaped

\* C8: right after a successful response is handled, every slot of every word
\* is empty, the words have the lengths of WordLengths, the cursor is 0 and
\* the error message is cleared.
C8_ResetOnSuccess ==
    lastEvent.op = "then" =>
        /\ Len(cells) = Len(initialLen)
        /\ \A w \in 1..Len(cells) :
              /\ Len(cells[w]) = initialLen[w]
              /\ \A i \in 1..Len(cells[w]) : cells[w][i] = Undefined
        /\ selectedCell = 0
        /\ error = Undefined

\* A successful response was handled for a two-word game while another
\* request is still pending.
C8_Witness ==
    /\ lastEvent.op = "then"
    /\ Len(initialLen) = 2
    /\ previousGuesses # <<>>
    /\ requests # <<>>

\* The k-th smallest number of the set S.
KthSmallest(S, k) == CHOOSE x \in S : Cardinality({y \in S : y < x}) = k - 1

\* The records of group g hold the words of guess, as far as g has a record
\* for the word.
GroupIsGuess(g, guess) ==
    \A w \in 1..Len(initialLen) : w <= Len(g) => g[w].guess = WordOf(guess, w)

\* C9: History has one group per succeeded submission, and the k-th group is
\* the k-th of the succeeded guesses in the order in which Enter issued their
\* requests.
C9_HistoryInSubmissionOrder ==
    /\ Len(previousGuesses) = Len(fulfilled)
    /\ \A k \in 1..Len(previousGuesses) :
          GroupIsGuess(previousGuesses[k],
                       sent[KthSmallest({fulfilled[j] : j \in 1..Len(fulfilled)}, k)])

\* C10: History before a transition is a prefix of History after it, and only
\* a successful response extends it, by exactly one group.
C10_HistoryAppendOnly ==
    [][/\ Len(previousGuesses') >= Len(previousGuesses)
       /\ SubSeq(previousGuesses', 1, Len(previousGuesses)) = previousGuesses
       /\ previousGuesses' # previousGuesses =>
             (Len(previousGuesses') = Len(previousGuesses) + 1 /\ ThenStep)
       /\ ThenStep => Len(previousGuesses') = Len(previousGuesses) + 1]_vars

\* A second, different group was appended to History.
C10_Witness ==
    /\ lastEvent.op = "then"
    /\ Len(previousGuesses) = 2
    /\ previousGuesses[1] # previousGuesses[2]

\* The sum of the first w word lengths: the cumulative prefix sum through the
\* word of 0-based index w - 1.
Cumulative(w) == Sum(SubSeq(initialLen, 1, w))

\* C11: effectiveIndex applied to the pair actualIndex(p) returns is p, for
\* every flat position p from 0 to sum(WordLengths).
C11_RoundTripFromPosition ==
    lastEvent.op = "actualIndex" => lastEvent.backP = lastEvent.p

\* actualIndex was applied to sum(WordLengths) in a game of several words.
C11_Witness ==
    /\ lastEvent.op = "actualIndex"
    /\ lastEvent.p = TotalSlots
    /\ Len(initialLen) >= 2

\* C12 as amended: actualIndex(effectiveIndex(w, s)) is (w, s) for every word
\* w and every slot s with 0 <= s < WordLengths[w]; for s = WordLengths[w] it
\* is (w + 1, 0).
C12_RoundTripFromSlot ==
    lastEvent.op = "effectiveIndex" =>
        IF lastEvent.s < initialLen[lastEvent.w + 1]
        THEN lastEvent.backW = lastEvent.w /\ lastEvent.backS = lastEvent.s
        ELSE lastEvent.backW = lastEvent.w + 1 /\ lastEvent.backS = 0

\* effectiveIndex was applied to the last slot of a word that is not the
\* first one, in a word of several slots.
C12_Witness ==
    /\ lastEvent.op = "effectiveIndex"
    /\ lastEvent.w >= 1
    /\ lastEvent.s >= 1
    /\ lastEvent.s = initialLen[lastEvent.w + 1] - 1

\* C12 as stated: actualIndex(effectiveIndex(w, s)) is (w, s) for every word
\* w and every slot s with 0 <= s <= WordLengths[w].
C12_RoundTripFromCoordinate ==
    lastEvent.op = "effectiveIndex" =>
        lastEvent.backW = lastEvent.w /\ lastEvent.backS = lastEvent.s

\* C13 as amended: for p < sum(WordLengths), actualIndex(p) is the existing
\* word of the smallest index whose cumulative prefix sum exceeds p, with the
\* slot p minus the lengths of the words before it; for p = sum(WordLengths)
\* it is (number of words, 0).
C13_TranslationResult ==
    lastEvent.op = "actualIndex" =>
        IF lastEvent.p < TotalSlots
        THEN /\ lastEvent.w >= 0 /\ lastEvent.w < Len(initialLen)
             /\ Cumulative(lastEvent.w + 1) > lastEvent.p
             /\ \A v \in 1..lastEvent.w : Cumulative(v) <= lastEvent.p
             /\ lastEvent.s = lastEvent.p - Cumulative(lastEvent.w)
        ELSE lastEvent.w = Len(initialLen) /\ lastEvent.s = 0

\* actualIndex was applied to a position inside a word that is not the first.
C13_Witness ==
    /\ lastEvent.op = "actualIndex"
    /\ lastEvent.p < TotalSlots
    /\ lastEvent.w >= 1
    /\ lastEvent.s >= 1

\* C13 as stated: for every p from 0 to sum(WordLengths), actualIndex(p) is an
\* existing word: the smallest index whose cumulative prefix sum exceeds p
\* when p < sum(WordLengths), the last word with the slot equal to its length
\* when p = sum(WordLengths).
C13_TranslationInsideGrid ==
    lastEvent.op = "actualIndex" =>
        /\ lastEvent.w >= 0 /\ lastEvent.w < Len(initialLen)
        /\ IF lastEvent.p < TotalSlots
           THEN /\ Cumulative(lastEvent.w + 1) > lastEvent.p
                /\ \A v \in 1..lastEvent.w : Cumulative(v) <= lastEvent.p
           ELSE /\ lastEvent.w = Len(initialLen) - 1
                /\ lastEvent.s = initialLen[Len(initialLen)]

RECURSIVE Flatten(_)
\* The slots of a grid in flat order: element p + 1 is the slot at the flat
\* position p.
Flatten(cs) == IF cs = <<>> THEN <<>> ELSE Head(cs) \o Flatten(Tail(cs))

\* The slot at the flat position p of a grid.
FlatAt(cs, p) == Flatten(cs)[p + 1]

\* The grid after the step has the words and word lengths of the grid before.
SameShape ==
    /\ Len(cells') = Len(cells)
    /\ \A w \in 1..Len(cells) : Len(cells'[w]) = Len(cells[w])

\* The step changes no slot but, at most, the one at the flat position p.
OnlySlotChanged(p) ==
    /\ SameShape
    /\ \A q \in 0..(TotalSlots - 1) : q # p => FlatAt(cells', q) = FlatAt(cells, q)

\* The step changes nothing of the component: grid, cursor, History,
\* SubmissionError and the outstanding requests.
NothingChanged ==
    /\ cells' = cells
    /\ selectedCell' = selectedCell
    /\ previousGuesses' = previousGuesses
    /\ error' = error
    /\ requests' = requests
    /\ sent' = sent

\* The step is a press of Backspace.
BackspaceStep == lastEvent'.op = "keydown" /\ lastEvent'.key = "backspace"

\* The step is a press of a key that is neither Backspace nor Enter.
CharacterStep ==
    /\ lastEvent'.op = "keydown"
    /\ lastEvent'.key \notin {"backspace", "enter"}

\* C14: Backspace at Cursor 0 leaves the cursor at 0 and slot (0,0) empty,
\* changes no other slot, and a Backspace that follows a Backspace at Cursor 0
\* changes nothing.
C14_BackspaceAtZero ==
    [][(BackspaceStep /\ selectedCell = 0) =>
          /\ selectedCell' = 0
          /\ cells'[1][1] = Undefined
          /\ OnlySlotChanged(0)
          /\ (lastEvent.op = "keydown" /\ lastEvent.key = "backspace") => NothingChanged]_vars

\* Backspace was pressed, the cursor is at 0, slot (0,0) is empty and another
\* slot is filled.
C14_Witness ==
    /\ lastEvent.op = "keydown" /\ lastEvent.key = "backspace"
    /\ selectedCell = 0
    /\ cells[1][1] = Undefined
    /\ \E q \in 1..(TotalSlots - 1) : FlatAt(cells, q) # Undefined

\* C15 as amended: a key whose lower-cased identifier is in the allowed class,
\* pressed while Cursor < sum(WordLengths), writes the lower-cased character
\* into exactly the slot at the flat position Cursor and increases Cursor by 1,
\* leaving every other slot, History and SubmissionError unchanged; a key whose
\* lower-cased identifier is outside the class, or any character key pressed
\* while Cursor = sum(WordLengths), changes no state.
C15_LetterInputLowerCased ==
    [][CharacterStep =>
          IF toLowerCase(lastEvent'.raw) \in ClassChars /\ selectedCell < TotalSlots
          THEN /\ FlatAt(cells', selectedCell) = toLowerCase(lastEvent'.raw)
               /\ OnlySlotChanged(selectedCell)
               /\ selectedCell' = selectedCell + 1
               /\ previousGuesses' = previousGuesses
               /\ error' = error
          ELSE NothingChanged]_vars

\* The key A was pressed at the last slot of the first word of two, and the
\* cursor is at the first slot of the second word.
C15_Witness ==
    /\ lastEvent.op = "keydown" /\ lastEvent.raw = "A"
    /\ Len(initialLen) = 2
    /\ selectedCell = initialLen[1]
    /\ FlatAt(cells, selectedCell - 1) = "a"
    /\ FlatAt(cells, selectedCell) = Undefined

\* C15 as stated: a key in the allowed class pressed while Cursor <
\* sum(WordLengths) writes that character into exactly the slot at the flat
\* position Cursor and increases Cursor by 1, leaving every other slot, History
\* and SubmissionError unchanged; a key outside the class, or any character key
\* pressed while Cursor = sum(WordLengths), changes no state.
C15_LetterInput ==
    [][CharacterStep =>
          IF lastEvent'.raw \in ClassChars /\ selectedCell < TotalSlots
          THEN /\ FlatAt(cells', selectedCell) = lastEvent'.raw
               /\ OnlySlotChanged(selectedCell)
               /\ selectedCell' = selectedCell + 1
               /\ previousGuesses' = previousGuesses
               /\ error' = error
          ELSE NothingChanged]_vars

\* C16: for every Cursor from 1 to sum(WordLengths), Backspace sets Cursor to
\* Cursor - 1 and empties exactly the slot at the flat position of the new
\* Cursor, leaving every other slot, History and SubmissionError unchanged.
C16_Backspace ==
    [][(BackspaceStep /\ selectedCell >= 1 /\ selectedCell <= TotalSlots) =>
          /\ selectedCell' = selectedCell - 1
          /\ FlatAt(cells', selectedCell') = Undefined
          /\ OnlySlotChanged(selectedCell')
          /\ previousGuesses' = previousGuesses
          /\ error' = error]_vars

\* Backspace was pressed with the cursor at the first slot of the second word:
\* the cursor is at the last slot of the first word, that slot is empty, and
\* the slots on both sides of it are still filled.
C16_Witness ==
    /\ lastEvent.op = "keydown" /\ lastEvent.key = "backspace"
    /\ initialLen = <<2, 1>>
    /\ selectedCell = 1
    /\ cells = <<<<"a", Undefined>>, <<"a">>>>

\* The step issues a grading request.
RequestStep == sent' # sent

\* The request the step issues.
IssuedRequest == requests'[Len(requests')]

\* C17: the text sent by Enter holds the words of the grid at that moment,
\* and the word texts of the group appended for a request are the words of the
\* text sent for that request, whatever the grid holds when the response is
\* handled.
C17_SubmittedTextSnapshot ==
    [][/\ RequestStep =>
            /\ sent' = Append(sent, IssuedRequest.guess)
            /\ \A w \in 1..Len(initialLen) : WordOf(IssuedRequest.guess, w) = cells[w]
       /\ ThenStep =>
            \A w \in 1..Len(initialLen) :
                w <= Len(AppendedGroup) =>
                    AppendedGroup[w].guess = WordOf(sent[lastEvent'.req], w)]_vars

\* The response to a request was handled and a group with its own text
\* appended while a later request, sent with another text, is still pending:
\* the grid was changed while the first request was pending.
C17_Witness ==
    /\ lastEvent.op = "then"
    /\ previousGuesses # <<>>
    /\ \E k \in 1..Len(requests) :
          /\ requests[k].n > lastEvent.req
          /\ requests[k].guess # sent[lastEvent.req]
          /\ previousGuesses[Len(previousGuesses)][1].guess = sent[lastEvent.req]

\* C18: every press of Enter on a fully filled grid issues a request whose id
\* is the game id and whose guess is the words of the grid in order, each the
\* concatenation of its slots, with exactly one space between two words, so
\* that splitting the guess on whitespace gives one piece per word with the
\* length of that word.
C18_RequestContent ==
    [][(EnterStep /\ ~SomeSlotEmpty) =>
          /\ Len(requests') = Len(requests) + 1
          /\ IssuedRequest.id = initialId
          /\ Len(IssuedRequest.guess) = TotalSlots + Len(initialLen) - 1
          /\ \A w \in 1..Len(initialLen) :
                /\ \A i \in 1..initialLen[w] :
                      IssuedRequest.guess[PrefixSum(w) + w - 1 + i] = cells[w][i]
                /\ w > 1 => IssuedRequest.guess[PrefixSum(w) + w - 1] = " "
          /\ Len(split(IssuedRequest.guess)) = Len(initialLen)
          /\ \A w \in 1..Len(initialLen) :
                Len(split(IssuedRequest.guess)[w]) = initialLen[w]]_vars

\* Enter was pressed on the filled grid of a two-word game and its request is
\* pending.
C18_Witness ==
    /\ lastEvent.op = "keydown" /\ lastEvent.key = "enter"
    /\ Len(initialLen) = 2
    /\ ~SomeSlotEmpty
    /\ requests # <<>>
    /\ requests[Len(requests)].guess = sent[Len(sent)]

\* C19: without clicks on cells, every slot at a flat position below the
\* cursor is filled and every slot at or above the cursor is empty, and a
\* request is issued only when the cursor is at sum(WordLengths).
C19_CursorAfterLastFilledSlot ==
    /\ [](\A p \in 0..(TotalSlots - 1) : (FlatAt(cells, p) # Undefined) <=> (p < selectedCell))
    /\ [][RequestStep => selectedCell = TotalSlots]_vars

\* After a successful submission, the grid of a two-word game is partly
\* filled again, and a Backspace has moved the cursor back into the first
\* word.
C19_Witness ==
    /\ previousGuesses # <<>>
    /\ lastEvent.op = "keydown" /\ lastEvent.key = "backspace"
    /\ initialLen = <<2, 1>>
    /\ selectedCell = 1
    /\ cells = <<<<"a", Undefined>>, <<Undefined>>>>

====
